---------------------------- MODULE Spec2Model ----------------------------
(***************************************************************************)
(* A model of the retrieval pipeline of the PDF explainer                  *)
(* (src/app/retrieval.py): clean_text, chunk_text_recursive,               *)
(* preprocess_text, access_chroma_collection, add_documents and            *)
(* retrieve_documents.                                                     *)
(*                                                                         *)
(* Text is a sequence of characters.  A character is a one-element string; *)
(* the non-ASCII characters clean_text names are written as tokens:        *)
(*   "NBSP" U+00A0, "LDQUO" U+201C, "RSQUO" U+2019, "ZWSP" U+200B.         *)
(***************************************************************************)
EXTENDS Integers, Sequences, FiniteSets, TLC

VARIABLES
    system,     \* the process-wide Chroma system: collection name -> index id
    indices,    \* index id -> (chunk id -> stored entry)
    last,       \* the last call made: its arguments and its outcome
    written,    \* collection name -> ids written by add_documents calls that returned
    resolved,   \* collection name -> index ids access_chroma_collection returned
    cin,        \* clean_text: the input string
    cout,       \* clean_text: the outputs of the first and second application
    kin,        \* chunk_text_recursive: text, chunk_size, chunk_overlap
    kout,       \* chunk_text_recursive: the outcome
    callers,    \* the concurrent callers of add_documents and retrieve_documents
    turn        \* chat_with_assistant_rag: the turn being answered

vars == <<system, indices, last, written, resolved, cin, cout, kin, kout,
          callers, turn>>

-----------------------------------------------------------------------------
(* Characters and the classes the regular expressions of clean_text use.    *)

LF == "\n"
CR == "\r"
TAB == "\t"
SP == " "

\* \s of Python's re on str: Unicode whitespace
WhiteSpace == {SP, TAB, LF, CR, "NBSP"}
\* \d
Digits == {"0", "1", "2"}
\* \w: letters, digits and the underscore
WordChars == {"a", "b", "i", "x", "I", "_"} \cup Digits
\* [ivxlcdm] under re.IGNORECASE
RomanChars == {"i", "v", "x", "l", "c", "d", "m", "I", "V", "X", "L", "C", "D", "M"}
\* [•\-\*\+]
BulletChars == {"BULLET", "-", "*", "+"}

Min(a, b) == IF a <= b THEN a ELSE b
Max(a, b) == IF a >= b THEN a ELSE b

\* The last index of the maximal run of characters of class cls that starts at i
\* (i - 1 when s[i] is not in cls): what a greedy cls* consumes from i.
RunEnd(s, i, cls) ==
    LET stops == {j \in i..Len(s) : s[j] \notin cls}
    IN  IF stops = {} THEN Len(s)
        ELSE (CHOOSE j \in stops : \A k \in stops : j <= k) - 1

\* str.strip(): leading and trailing characters of cls removed
StripChars(s, cls) ==
    IF \A j \in 1..Len(s) : s[j] \in cls THEN <<>>
    ELSE SubSeq(s, CHOOSE j \in 1..Len(s) :
                       s[j] \notin cls /\ \A k \in 1..(j - 1) : s[k] \in cls,
                   CHOOSE j \in 1..Len(s) :
                       s[j] \notin cls /\ \A k \in (j + 1)..Len(s) : s[k] \in cls)

\* unicodedata.normalize('NFKD', text): the compatibility decomposition of
\* one character (U+00A0 decomposes to a space; the others modelled have none)
NFKDChar(c) == IF c = "NBSP" THEN <<SP>> ELSE <<c>>

RECURSIVE Flatten(_)
Flatten(ss) == IF ss = <<>> THEN <<>>
               ELSE IF Len(ss) = 1 THEN ss[1]
               ELSE Flatten(SubSeq(ss, 1, Len(ss) \div 2))
                    \o Flatten(SubSeq(ss, (Len(ss) \div 2) + 1, Len(ss)))

NFKD(s) == Flatten([j \in 1..Len(s) |-> NFKDChar(s[j])])


\* The last index of the maximal run of characters outside cls starting at i
RunEndNot(s, i, cls) ==
    LET stops == {j \in i..Len(s) : s[j] \in cls}
    IN  IF stops = {} THEN Len(s)
        ELSE (CHOOSE j \in stops : \A k \in stops : j <= k) - 1

At(s, i) == IF i >= 1 /\ i <= Len(s) THEN s[i] ELSE "EOS"

-----------------------------------------------------------------------------
(* The substitutions of clean_text, in its order.  For each pattern,       *)
(* MatchEnd(pat, s, i) is the index where the match that re finds starting *)
(* at i ends (0: no match starts at i), greedy quantifiers and their       *)
(* backtracking included, and Repl(pat, s, i, e) is what replaces s[i..e]. *)

\* (\w+)-\s*\n\s*(\w+): a maximal word run, a hyphen, a whitespace run that
\* holds a newline, a maximal word run
HyphenParts(s, i) ==
    LET w1 == RunEnd(s, i, WordChars)
        ws == RunEnd(s, w1 + 2, WhiteSpace)
        w2 == RunEnd(s, ws + 1, WordChars)
    IN  [w1 |-> w1, ws |-> ws, w2 |-> w2,
         ok |-> /\ w1 >= i
                /\ At(s, w1 + 1) = "-"
                /\ \E j \in (w1 + 2)..ws : s[j] = LF
                /\ w2 >= ws + 1]

\* \n\s*<cls>+\s*\n: the first \s* and <cls>+ are maximal (what follows
\* each is outside its class); the last \s* gives back down to the last newline
\* of the whitespace run
LoneLineEnd(s, i, cls) ==
    IF At(s, i) # LF THEN 0
    ELSE LET a == RunEnd(s, i + 1, WhiteSpace)
             b == RunEnd(s, a + 1, cls)
             c == RunEnd(s, b + 1, WhiteSpace)
             nl == {j \in (b + 1)..c : s[j] = LF}
         IN  IF b >= a + 1 /\ nl # {}
             THEN CHOOSE j \in nl : \A k \in nl : j >= k
             ELSE 0

\* (#+) +([^\n]+): the hashes, the spaces, the rest of the line; when nothing
\* follows the spaces, ' +' gives its last space back to [^\n]+
HeaderParts(s, i) ==
    LET h == RunEnd(s, i, {"#"})
        sp == RunEnd(s, h + 1, {SP})
        eol == RunEndNot(s, h + 1, {LF})
    IN  [h |-> h, sp |-> sp, eol |-> eol,
         ok |-> h >= i /\ sp >= h + 1 /\ (eol > sp \/ sp >= h + 2)]

MatchEnd(pat, s, i) ==
    CASE pat = "hyphen_break" ->
            IF At(s, i) \in WordChars /\ HyphenParts(s, i).ok
            THEN HyphenParts(s, i).w2 ELSE 0
      [] pat = "spaces" ->
            IF At(s, i) = SP THEN RunEnd(s, i, {SP}) ELSE 0
      [] pat = "tabs" ->
            IF At(s, i) = TAB THEN RunEnd(s, i, {TAB}) ELSE 0
      [] pat = "nl_spaces" ->
            IF At(s, i) = LF /\ At(s, i + 1) = SP
            THEN RunEnd(s, i + 1, {SP}) ELSE 0
      [] pat = "spaces_nl" ->
            IF At(s, i) = SP /\ At(s, RunEnd(s, i, {SP}) + 1) = LF
            THEN RunEnd(s, i, {SP}) + 1 ELSE 0
      [] pat = "nl3" ->
            IF At(s, i) = LF /\ RunEnd(s, i, {LF}) >= i + 2
            THEN RunEnd(s, i, {LF}) ELSE 0
      [] pat = "crlf" ->
            IF At(s, i) = CR /\ At(s, i + 1) = LF THEN i + 1 ELSE 0
      [] pat = "cr" ->
            IF At(s, i) = CR THEN i ELSE 0
      [] pat = "page_number" -> LoneLineEnd(s, i, Digits)
      [] pat = "roman" -> LoneLineEnd(s, i, RomanChars)
      [] pat = "pipe_mid" ->
            IF /\ At(s, i) = SP
               /\ At(s, RunEnd(s, i, {SP}) + 1) = "|"
               /\ At(s, RunEnd(s, i, {SP}) + 2) = SP
            THEN RunEnd(s, RunEnd(s, i, {SP}) + 2, {SP}) ELSE 0
      [] pat = "pipe_start" ->
            IF /\ At(s, i) = "|"
               /\ (i = 1 \/ At(s, i - 1) = LF)
               /\ At(s, i + 1) = SP
            THEN RunEnd(s, i + 1, {SP}) ELSE 0
      [] pat = "pipe_end" ->
            IF /\ At(s, i) = SP
               /\ At(s, RunEnd(s, i, {SP}) + 1) = "|"
               /\ At(s, RunEnd(s, i, {SP}) + 2) \in {LF, "EOS"}
            THEN RunEnd(s, i, {SP}) + 1 ELSE 0
      [] pat = "bullet" ->
            IF /\ At(s, i) = LF /\ At(s, i + 1) = SP
               /\ At(s, RunEnd(s, i + 1, {SP}) + 1) \in BulletChars
            THEN RunEnd(s, i + 1, {SP}) + 1 ELSE 0
      [] pat = "numbered" ->
            IF /\ At(s, i) = LF /\ At(s, i + 1) = SP
               /\ At(s, RunEnd(s, i + 1, {SP}) + 1) \in Digits
               /\ At(s, RunEnd(s, RunEnd(s, i + 1, {SP}) + 1, Digits) + 1) = "."
            THEN RunEnd(s, RunEnd(s, i + 1, {SP}) + 1, Digits) + 1 ELSE 0
      [] pat = "header_indent" ->
            IF /\ At(s, i) = LF /\ At(s, i + 1) = SP
               /\ At(s, RunEnd(s, i + 1, {SP}) + 1) = "#"
            THEN RunEnd(s, RunEnd(s, i + 1, {SP}) + 1, {"#"}) ELSE 0
      [] pat = "header_space" ->
            IF At(s, i) = "#" /\ HeaderParts(s, i).ok
            THEN HeaderParts(s, i).eol ELSE 0
      [] pat = "dots" ->
            IF At(s, i) = "." /\ RunEnd(s, i, {"."}) >= i + 2
            THEN RunEnd(s, i, {"."}) ELSE 0
      [] pat = "dashes" ->
            IF At(s, i) = "-" /\ RunEnd(s, i, {"-"}) >= i + 2
            THEN RunEnd(s, i, {"-"}) ELSE 0
      [] pat = "dquotes" ->
            IF At(s, i) \in {"LDQUO", "RDQUO", "LOWDQUO"} THEN i ELSE 0
      [] pat = "squotes" ->
            IF At(s, i) \in {"LSQUO", "RSQUO"} THEN i ELSE 0
      [] pat = "zero_width" ->
            IF At(s, i) \in {"ZWSP", "ZWNJ", "ZWJ", "BOM"} THEN i ELSE 0

Repl(pat, s, i, e) ==
    CASE pat = "hyphen_break" ->
            SubSeq(s, i, HyphenParts(s, i).w1)
            \o SubSeq(s, HyphenParts(s, i).ws + 1, e)
      [] pat \in {"spaces", "tabs"} -> <<SP>>
      [] pat \in {"nl_spaces", "spaces_nl", "crlf", "cr", "page_number", "roman"} ->
            <<LF>>
      [] pat = "nl3" -> <<LF, LF>>
      [] pat = "pipe_mid" -> <<SP, "|", SP>>
      [] pat = "pipe_start" -> <<"|", SP>>
      [] pat = "pipe_end" -> <<SP, "|">>
      [] pat = "bullet" -> <<LF, s[e]>>
      [] pat = "numbered" -> <<LF>> \o SubSeq(s, RunEnd(s, i + 1, {SP}) + 1, e)
      [] pat = "header_indent" -> <<LF>> \o SubSeq(s, RunEnd(s, i + 1, {SP}) + 1, e)
      [] pat = "header_space" ->
            SubSeq(s, i, HeaderParts(s, i).h) \o <<SP>>
            \o (IF HeaderParts(s, i).eol > HeaderParts(s, i).sp
                THEN SubSeq(s, HeaderParts(s, i).sp + 1, e)
                ELSE <<SP>>)
      [] pat = "dots" -> <<".", ".", ".">>
      [] pat = "dashes" -> <<"-", "-", "-">>
      [] pat = "dquotes" -> <<"\"">>
      [] pat = "squotes" -> <<"'">>
      [] pat = "zero_width" -> <<>>

\* re.sub(pattern, repl, text): the leftmost match, then the leftmost match
\* after its end, and so on; what lies between the matches is kept
RECURSIVE SubFrom(_, _, _)
SubFrom(pat, s, from) ==
    LET starts == {i \in from..Len(s) : MatchEnd(pat, s, i) > 0}
    IN  IF starts = {} THEN SubSeq(s, from, Len(s))
        ELSE LET i == CHOOSE j \in starts : \A k \in starts : j <= k
                 e == MatchEnd(pat, s, i)
             IN  SubSeq(s, from, i - 1) \o Repl(pat, s, i, e)
                 \o SubFrom(pat, s, e + 1)

ReSub(pat, s) == SubFrom(pat, s, 1)

\* The patterns in the order clean_text applies them
CleanSteps ==
    << "hyphen_break", "spaces", "tabs", "nl_spaces", "spaces_nl",
       "nl3", "crlf", "cr", "page_number", "roman",
       "pipe_mid", "pipe_start", "pipe_end", "bullet", "numbered",
       "header_indent", "header_space", "dots", "dashes",
       "dquotes", "squotes", "zero_width" >>

RECURSIVE ApplySteps(_, _)
ApplySteps(steps, s) ==
    IF steps = <<>> THEN s
    ELSE ApplySteps(Tail(steps), ReSub(Head(steps), s))

clean_text(text) ==
    IF text = <<>> \/ StripChars(text, WhiteSpace) = <<>> THEN <<>>
    ELSE StripChars(StripChars(ApplySteps(CleanSteps, NFKD(text)), WhiteSpace),
                    {LF})

-----------------------------------------------------------------------------
(* chunk_text_recursive: RecursiveCharacterTextSplitter(chunk_size,        *)
(* chunk_overlap, length_function = len, is_separator_regex = False) with  *)
(* the splitter's defaults: separators ["\n\n", "\n", " ", ""], the        *)
(* separator kept at the start of the piece it opens, chunks stripped of   *)
(* whitespace.  A piece or a chunk is a span [lo, hi] of the text: every   *)
(* string the splitter builds is a contiguous slice of its input, and the  *)
(* span records which one.                                                 *)

DefaultSeparators == << <<LF, LF>>, <<LF>>, <<SP>>, <<>> >>

Span(lo, hi) == [lo |-> lo, hi |-> hi]
SpanLen(p) == p.hi - p.lo + 1
SpanText(s, p) == SubSeq(s, p.lo, p.hi)

\* re.split on the literal separator: the starts of its leftmost
\* non-overlapping occurrences in s[from..hi]
RECURSIVE SepStarts(_, _, _, _)
SepStarts(s, from, hi, sep) ==
    LET w == Len(sep)
        occ == {i \in from..(hi - w + 1) : SubSeq(s, i, i + w - 1) = sep}
    IN  IF occ = {} THEN <<>>
        ELSE LET i == CHOOSE j \in occ : \A k \in occ : j <= k
             IN  <<i>> \o SepStarts(s, i + w, hi, sep)

\* _split_text_with_regex(text, separator, keep_separator = True): the text
\* before the first separator, then one piece per separator, which opens it;
\* list(text) for the empty separator; empty pieces dropped
split_text_with_regex(s, lo, hi, sep) ==
    IF sep = <<>> THEN [k \in 1..(hi - lo + 1) |-> Span(lo + k - 1, lo + k - 1)]
    ELSE LET m == SepStarts(s, lo, hi, sep)
             pieces == [k \in 1..(Len(m) + 1) |->
                          Span(IF k = 1 THEN lo ELSE m[k - 1],
                               IF k = Len(m) + 1 THEN hi ELSE m[k] - 1)]
         IN  SelectSeq(pieces, LAMBDA p : SpanLen(p) > 0)

\* _join_docs: the pieces joined (they are contiguous and the joining
\* separator is empty) and stripped; <<>> stands for None
join_docs(s, current) ==
    IF current = <<>> THEN <<>>
    ELSE LET lo == current[1].lo
             hi == current[Len(current)].hi
         IN  IF \A j \in lo..hi : s[j] \in WhiteSpace THEN <<>>
             ELSE << Span(CHOOSE j \in lo..hi :
                              s[j] \notin WhiteSpace
                              /\ \A k \in lo..(j - 1) : s[k] \in WhiteSpace,
                          CHOOSE j \in lo..hi :
                              s[j] \notin WhiteSpace
                              /\ \A k \in (j + 1)..hi : s[k] \in WhiteSpace) >>

\* A variant of the inner while loop that stops as soon as what stays is
\* within the overlap, whether or not the next piece then fits: the chunk
\* length bound does not survive it
RECURSIVE PopFrontOverlapOnly(_, _, _, _, _)
PopFrontOverlapOnly(current, total, len, size, overlap) ==
    IF total > overlap
    THEN PopFrontOverlapOnly(Tail(current), total - SpanLen(Head(current)),
                             len, size, overlap)
    ELSE [current |-> current, total |-> total]

\* A variant of the inner while loop that keeps whatever leaves room for the
\* next piece, the overlap forgotten: the overlap bound does not survive it
RECURSIVE PopFrontToSize(_, _, _, _, _)
PopFrontToSize(current, total, len, size, overlap) ==
    IF total > size \/ (total + len > size /\ total > 0)
    THEN PopFrontToSize(Tail(current), total - SpanLen(Head(current)),
                        len, size, overlap)
    ELSE [current |-> current, total |-> total]

\* The inner while loop of _merge_splits: pieces leave the front of the
\* window until what stays is within the overlap and the next piece fits
RECURSIVE PopFront(_, _, _, _, _)
PopFront(current, total, len, size, overlap) ==
    IF total > overlap \/ (total + len > size /\ total > 0)
    THEN PopFront(Tail(current), total - SpanLen(Head(current)), len, size, overlap)
    ELSE [current |-> current, total |-> total]

\* _merge_splits(splits, separator = ""): the loop over the pieces from the
\* k-th on
RECURSIVE MergeLoop(_, _, _, _, _, _, _, _)
MergeLoop(s, splits, k, current, total, docs, size, overlap) ==
    IF k > Len(splits) THEN docs \o join_docs(s, current)
    ELSE LET d == splits[k]
             len == SpanLen(d)
             flush == total + len > size /\ Len(current) > 0
             kept == IF flush THEN PopFront(current, total, len, size, overlap)
                     ELSE [current |-> current, total |-> total]
         IN  MergeLoop(s, splits, k + 1, Append(kept.current, d), kept.total + len,
                       IF flush THEN docs \o join_docs(s, current) ELSE docs,
                       size, overlap)

merge_splits(s, splits, size, overlap) ==
    MergeLoop(s, splits, 1, <<>>, 0, <<>>, size, overlap)

\* _split_text: the first separator of the list that the text holds (the
\* empty one always does), and the separators after it
SeparatorIndex(s, lo, hi, seps) ==
    CHOOSE i \in 1..Len(seps) :
        /\ seps[i] = <<>> \/ SepStarts(s, lo, hi, seps[i]) # <<>>
        /\ \A j \in 1..(i - 1) : seps[j] # <<>> /\ SepStarts(s, lo, hi, seps[j]) = <<>>

\* what _split_text does before its loop: the pieces of the text at the
\* separator chosen, and the separators left for the pieces still too long
SplitPieces(s, lo, hi, seps) ==
    split_text_with_regex(s, lo, hi, seps[SeparatorIndex(s, lo, hi, seps)])

SeparatorsLeft(s, lo, hi, seps) ==
    LET i == SeparatorIndex(s, lo, hi, seps)
    IN  IF seps[i] = <<>> THEN <<>> ELSE SubSeq(seps, i + 1, Len(seps))

\* the loop of _split_text over the pieces from the k-th on: pieces shorter
\* than chunk_size gather in good and are merged; another is split with the
\* finer separators (the recursive call of _split_text, which starts this
\* loop on the pieces of the piece), or kept as it is when none is left
RECURSIVE SplitLoop(_, _, _, _, _, _, _, _)
SplitLoop(s, splits, k, good, final, rest, size, overlap) ==
    IF k > Len(splits)
    THEN IF good # <<>> THEN final \o merge_splits(s, good, size, overlap) ELSE final
    ELSE IF SpanLen(splits[k]) < size
    THEN SplitLoop(s, splits, k + 1, Append(good, splits[k]), final, rest, size, overlap)
    ELSE SplitLoop(s, splits, k + 1, <<>>,
                   (IF good # <<>> THEN final \o merge_splits(s, good, size, overlap)
                    ELSE final)
                   \o (IF rest = <<>> THEN <<splits[k]>>
                       ELSE SplitLoop(s, SplitPieces(s, splits[k].lo, splits[k].hi, rest),
                                      1, <<>>, <<>>,
                                      SeparatorsLeft(s, splits[k].lo, splits[k].hi, rest),
                                      size, overlap)),
                   rest, size, overlap)

split_text(s, lo, hi, seps, size, overlap) ==
    SplitLoop(s, SplitPieces(s, lo, hi, seps), 1, <<>>, <<>>,
              SeparatorsLeft(s, lo, hi, seps), size, overlap)

\* TextSplitter.__init__ raises ValueError on these
SplitterRejects(size, overlap) == size <= 0 \/ overlap < 0 \/ overlap > size

\* chunk_text_recursive(text, chunk_size, chunk_overlap): the chunks are the
\* texts of the spans, in order
chunk_text_recursive(text, size, overlap) ==
    IF text = <<>> \/ StripChars(text, WhiteSpace) = <<>>
    THEN [ok |-> TRUE, chunks |-> <<>>]
    ELSE IF SplitterRejects(size, overlap)
    THEN [ok |-> FALSE, chunks |-> <<>>]
    ELSE [ok |-> TRUE,
          chunks |-> split_text(text, 1, Len(text), DefaultSeparators, size, overlap)]

-----------------------------------------------------------------------------
(* The values of the page and chunk dictionaries.  A Python value is       *)
(* tagged with its type: s holds a str (or a list's printed form), n an    *)
(* int (a bool as 0 or 1).  The text of a page or chunk is a sequence of   *)
(* characters.                                                             *)

StrVal(x) == [t |-> "str", s |-> x, n |-> 0]
IntVal(k) == [t |-> "int", s |-> "", n |-> k]
BoolVal(b) == [t |-> "bool", s |-> "", n |-> IF b THEN 1 ELSE 0]
NoneVal == [t |-> "none", s |-> "", n |-> 0]
ListVal(x) == [t |-> "list", s |-> x, n |-> 0]

\* str(value), as an f-string formats it
PyStr(v) ==
    CASE v.t = "str" -> v.s
      [] v.t = "int" -> ToString(v.n)
      [] v.t = "bool" -> IF v.n = 1 THEN "True" ELSE "False"
      [] v.t = "none" -> "None"
      [] v.t = "list" -> v.s

\* len(text.split()): the maximal runs of non-whitespace
WordCount(s) ==
    Cardinality({j \in 1..Len(s) :
                    s[j] \notin WhiteSpace /\ (j = 1 \/ s[j - 1] \in WhiteSpace)})

\* len(text.split('\n'))
LineCount(s) == Cardinality({j \in 1..Len(s) : s[j] = LF}) + 1

\* parse_pdf, one page of the page-wise extraction: info is what
\* pymupdf4llm gave for the page, its text and the page, bbox and page_size
\* of its metadata (NoneVal where the metadata has none)
PagewiseRecord(filename, info) ==
    [filename |-> StrVal(filename),
     page |-> info.page,
     text |-> info.text,
     text_format |-> StrVal("markdown"),
     extraction_method |-> StrVal("pymupdf4llm"),
     has_tables |-> BoolVal(\E j \in 1..Len(info.text) : info.text[j] = "|"),
     char_count |-> IntVal(Len(info.text)),
     word_count |-> IntVal(WordCount(info.text)),
     line_count |-> IntVal(LineCount(info.text)),
     images_extracted |-> BoolVal(FALSE),
     source_bbox |-> info.bbox,
     source_page_size |-> info.page_size]

\* parse_pdf, the record of the fallback: the whole document as page 1
FallbackRecord(filename, text) ==
    [filename |-> StrVal(filename),
     page |-> IntVal(1),
     text |-> text,
     text_format |-> StrVal("markdown"),
     extraction_method |-> StrVal("pymupdf4llm_fallback"),
     has_tables |-> BoolVal(\E j \in 1..Len(text) : text[j] = "|"),
     char_count |-> IntVal(Len(text)),
     word_count |-> IntVal(WordCount(text)),
     line_count |-> IntVal(LineCount(text)),
     images_extracted |-> BoolVal(FALSE),
     error_note |-> StrVal("Page-wise extraction failed, using full document")]

\* the defaults of preprocess_text, which add_documents leaves in place
DefaultChunkSize == 500
DefaultChunkOverlap == 150

\* the keys of the page that preprocess_text reads to build a chunk document
PageKeysRead ==
    {"filename", "page", "text_format", "extraction_method", "has_tables",
     "char_count", "word_count", "line_count", "images_extracted",
     "source_bbox", "source_page_size"}

\* preprocess_text: the chunk document of the k-th chunk (k from 1, which is
\* enumerate's chunk_num + 1) of a page
chunk_doc(page, cleaned, chunks, k, size, overlap) ==
    [filename |-> page.filename,
     page |-> page.page,
     text_format |-> page.text_format,
     extraction_method |-> page.extraction_method,
     page_has_tables |-> page.has_tables,
     page_char_count |-> page.char_count,
     page_word_count |-> page.word_count,
     page_line_count |-> page.line_count,
     page_images_extracted |-> page.images_extracted,
     page_source_bbox |-> page.source_bbox,
     page_source_page_size |-> page.source_page_size,
     text |-> SpanText(cleaned, chunks[k]),
     chunk_number |-> IntVal(k),
     total_chunks_for_page |-> IntVal(Len(chunks)),
     chunk_char_count |-> IntVal(SpanLen(chunks[k])),
     chunk_word_count |-> IntVal(WordCount(SpanText(cleaned, chunks[k]))),
     is_chunked |-> BoolVal(TRUE),
     chunk_size_used |-> IntVal(size),
     chunk_overlap_used |-> IntVal(overlap)]

\* preprocess_text, the loop over the chunks of a page: res is what
\* chunk_text_recursive gave for the cleaned text
page_docs(page, cleaned, res, size, overlap) ==
    IF ~res.ok
    THEN [ok |-> FALSE, error |-> "ValueError", docs |-> <<>>]
    ELSE IF res.chunks # <<>> /\ ~(PageKeysRead \subseteq DOMAIN page)
    THEN [ok |-> FALSE, error |-> "KeyError", docs |-> <<>>]
    ELSE [ok |-> TRUE, error |-> "",
          docs |-> [k \in 1..Len(res.chunks) |->
                      chunk_doc(page, cleaned, res.chunks, k, size, overlap)]]

\* preprocess_text, a page whose cleaned text is given: skipped when the
\* text is blank, chunked otherwise
page_chunks(page, cleaned, size, overlap) ==
    IF StripChars(cleaned, WhiteSpace) = <<>>
    THEN [ok |-> TRUE, error |-> "", docs |-> <<>>]
    ELSE page_docs(page, cleaned,
                   chunk_text_recursive(cleaned, size, overlap), size, overlap)

\* preprocess_text, the body of its loop over the pages: the chunk documents
\* of one page, or the exception it raises
preprocess_page(page, size, overlap) ==
    page_chunks(page, clean_text(page.text), size, overlap)

-----------------------------------------------------------------------------
(* The inputs of the model.                                                *)

MaxPages == 2        \* pages in one add_documents call
MaxTopK == 2         \* top_k runs over 0..MaxTopK
MaxCleanLen == 5     \* length of the strings clean_text is applied to
MaxChunkLen == 5     \* length of the texts chunk_text_recursive is applied to
MaxChunkSize == 3    \* chunk_size runs over 0..MaxChunkSize

\* app.py's COLLECTION_NAME and the collection of llm.py's chat_with_assistant
Names == {"pdf_collection", "default_collection"}

Queries == {"cats"}

\* a page of ten words of sixty letters: longer than the default chunk size
LongText == [j \in 1..609 |-> IF j % 61 = 0 THEN SP ELSE "a"]

NoBox(text, page) ==
    [text |-> text, page |-> IntVal(page), bbox |-> NoneVal, page_size |-> NoneVal]

\* The page records add_documents is called with: pages of a.pdf (the
\* second one blank), page 1 of a.pdf as extracted from a changed file, a
\* long page, a page whose metadata carries a bounding box, and the record
\* of the fallback
PageInputs ==
    << PagewiseRecord("a.pdf", NoBox(<<"a", "b", SP, SP, "a", LF>>, 1)),
       PagewiseRecord("a.pdf", NoBox(<<SP, LF, TAB>>, 2)),
       PagewiseRecord("a.pdf", NoBox(<<"x", "i">>, 1)),
       PagewiseRecord("b.pdf", NoBox(LongText, 1)),
       PagewiseRecord("c.pdf",
                      [text |-> <<"a">>, page |-> IntVal(1),
                       bbox |-> ListVal("(0.0, 0.0, 612.0, 792.0)"),
                       page_size |-> NoneVal]),
       FallbackRecord("d.pdf", <<"a", "b">>) >>

RECURSIVE SeqsUpTo(_, _)
SeqsUpTo(S, len) ==
    IF len = 0 THEN {<<>>}
    ELSE LET shorter == SeqsUpTo(S, len - 1)
         IN  shorter \cup {Append(q, x) : q \in shorter, x \in S}

PageArgs == SeqsUpTo(1..Len(PageInputs), MaxPages)

\* preprocess_page on the page inputs with the default sizes, computed once
PreprocessedInputs ==
    [j \in 1..Len(PageInputs) |->
        preprocess_page(PageInputs[j], DefaultChunkSize, DefaultChunkOverlap)]

PreprocessPage(page, size, overlap) ==
    IF /\ size = DefaultChunkSize /\ overlap = DefaultChunkOverlap
       /\ \E j \in 1..Len(PageInputs) : PageInputs[j] = page
    THEN PreprocessedInputs[CHOOSE j \in 1..Len(PageInputs) : PageInputs[j] = page]
    ELSE preprocess_page(page, size, overlap)

-----------------------------------------------------------------------------
(* preprocess_text, the Chroma calls, add_documents, retrieve_documents    *)

\* preprocess_text, the list all_docs after the loop: per is what the body of
\* the loop gave for each page
all_docs(per) ==
    LET failed == {j \in 1..Len(per) : ~per[j].ok}
    IN  IF failed # {}
        THEN [ok |-> FALSE,
              error |-> per[CHOOSE j \in failed : \A k \in failed : j <= k].error,
              docs |-> <<>>]
        ELSE [ok |-> TRUE, error |-> "",
              docs |-> Flatten([j \in 1..Len(per) |-> per[j].docs])]

\* preprocess_text(pages, chunk_size, chunk_overlap): the chunk documents of
\* the pages in order; the first page that raises ends the call
preprocess_text(pages, size, overlap) ==
    all_docs([j \in 1..Len(pages) |-> PreprocessPage(pages[j], size, overlap)])

\* A variant of access_chroma_collection whose client shares nothing with
\* the clients before it, so that every call creates the collection anew:
\* reads would not observe writes
access_fresh_collection(sys, idx, name) ==
    [system |-> (name :> (Len(idx) + 1)) @@ sys,
     indices |-> Append(idx, {}),
     handle |-> Len(idx) + 1, created |-> TRUE]

\* access_chroma_collection(name): EphemeralClient() is a new client of the
\* one in-memory system of the process; get_or_create_collection returns the
\* index the system holds under the name, creating an empty one when it holds
\* none.  An index is the set of its entries.
access_chroma_collection(sys, idx, name) ==
    IF name \in DOMAIN sys
    THEN [system |-> sys, indices |-> idx, handle |-> sys[name], created |-> FALSE]
    ELSE [system |-> (name :> (Len(idx) + 1)) @@ sys,
          indices |-> Append(idx, {}),
          handle |-> Len(idx) + 1, created |-> TRUE]

\* A variant of the id that leaves the chunk number out: the chunks of one
\* page would share an id
doc_id_of_page(doc) ==
    PyStr(doc.filename) \o "_page" \o PyStr(doc.page)

\* the id add_documents gives a chunk document
doc_id(doc) ==
    PyStr(doc.filename) \o "_page" \o PyStr(doc.page)
    \o "_chunk" \o PyStr(doc.chunk_number)

\* the metadata add_documents builds: every key but 'text' whose value is
\* not None
doc_metadata(doc) ==
    LET keys == {k \in (DOMAIN doc) \ {"text"} : doc[k] # NoneVal}
    IN  [k \in keys |-> doc[k]]

EntryIds(entries) == {e.id : e \in entries}

\* A variant of collection.add that writes the batch over the index
\* instead of into it: a writer would lose what the others wrote
collection_add_over(entries, ids, texts, metadatas) ==
    IF ids = <<>> THEN [ok |-> FALSE, error |-> "ValueError", entries |-> entries]
    ELSE [ok |-> TRUE, error |-> "",
          entries |-> {[id |-> ids[j], text |-> texts[j], metadata |-> metadatas[j]] :
                          j \in 1..Len(ids)}]

\* collection.add(ids, documents, metadatas).  Chroma validates the batch
\* first (ids: a non-empty list without duplicates; metadata: a non-empty
\* dict of str, int, float or bool values) and raises on a bad one; then an
\* id the index already holds is skipped and the others are inserted.
collection_add(entries, ids, texts, metadatas) ==
    IF ids = <<>> THEN [ok |-> FALSE, error |-> "ValueError", entries |-> entries]
    ELSE IF \E j, k \in 1..Len(ids) : j # k /\ ids[j] = ids[k]
    THEN [ok |-> FALSE, error |-> "DuplicateIDError", entries |-> entries]
    ELSE IF \E j \in 1..Len(ids) :
                \/ DOMAIN metadatas[j] = {}
                \/ \E k \in DOMAIN metadatas[j] :
                       metadatas[j][k].t \notin {"str", "int", "bool"}
    THEN [ok |-> FALSE, error |-> "ValueError", entries |-> entries]
    ELSE [ok |-> TRUE, error |-> "",
          entries |-> entries \cup
              {[id |-> ids[j], text |-> texts[j], metadata |-> metadatas[j]] :
                  j \in {k \in 1..Len(ids) : ids[k] \notin EntryIds(entries)}}]

\* A variant of collection.query that raises when n_results exceeds the
\* number of entries instead of returning them all
collection_query_strict(entries, query, top_k) ==
    IF top_k <= 0 \/ top_k > Cardinality(entries)
    THEN {[ok |-> FALSE, error |-> "ValueError", results |-> {}]}
    ELSE {[ok |-> TRUE, error |-> "", results |-> EntryIds(R)] :
             R \in {Q \in SUBSET entries : Cardinality(Q) = top_k}}

\* collection.query(query_texts = [query], n_results = top_k): n_results
\* must be positive; the nearest min(n_results, count) entries are returned.
\* Which entries are nearest is the embedding model's matter: every choice
\* of that many entries is a possible result.
collection_query(entries, query, top_k) ==
    IF top_k <= 0 THEN {[ok |-> FALSE, error |-> "ValueError", results |-> {}]}
    ELSE {[ok |-> TRUE, error |-> "", results |-> EntryIds(R)] :
             R \in {Q \in SUBSET entries :
                       Cardinality(Q) = Min(top_k, Cardinality(entries))}}

\* add_documents after its first two statements: acc is the collection it
\* accessed and pre what preprocess_text gave; it builds the ids, texts and
\* metadata and passes them to collection.add
add_batch(acc, pre) ==
    LET ids == [j \in 1..Len(pre.docs) |-> doc_id(pre.docs[j])]
        texts == [j \in 1..Len(pre.docs) |-> pre.docs[j].text]
        metadatas == [j \in 1..Len(pre.docs) |-> doc_metadata(pre.docs[j])]
        res == collection_add(acc.indices[acc.handle], ids, texts, metadatas)
    IN  IF ~pre.ok
        THEN [system |-> acc.system, indices |-> acc.indices, handle |-> acc.handle,
              created |-> acc.created, ok |-> FALSE, error |-> pre.error,
              passed |-> FALSE, ids |-> <<>>, texts |-> <<>>, metadatas |-> <<>>]
        ELSE [system |-> acc.system,
              indices |-> [acc.indices EXCEPT ![acc.handle] = res.entries],
              handle |-> acc.handle, created |-> acc.created,
              ok |-> res.ok, error |-> res.error,
              passed |-> TRUE, ids |-> ids, texts |-> texts, metadatas |-> metadatas]

\* add_documents(name, documents)
add_documents(sys, idx, name, documents) ==
    add_batch(access_chroma_collection(sys, idx, name),
              preprocess_text(documents, DefaultChunkSize, DefaultChunkOverlap))

\* retrieve_documents(name, query, top_k): the set of its possible outcomes
retrieve_documents(sys, idx, name, query, top_k) ==
    LET acc == access_chroma_collection(sys, idx, name)
    IN  {[system |-> acc.system, indices |-> acc.indices, handle |-> acc.handle,
          created |-> acc.created, ok |-> out.ok, error |-> out.error,
          results |-> out.results] :
            out \in collection_query(acc.indices[acc.handle], query, top_k)}

-----------------------------------------------------------------------------
(* The state machine of the store: calls of add_documents and              *)
(* retrieve_documents, in any order.                                       *)

NoCall ==
    [op |-> "none", name |-> "", pages |-> <<>>, query |-> "", top_k |-> 0,
     ok |-> TRUE, error |-> "", handle |-> 0, created |-> FALSE, passed |-> FALSE,
     ids |-> <<>>, texts |-> <<>>, metadatas |-> <<>>,
     results |-> {}, searched |-> {}, count |-> 0]

PureIdle ==
    /\ cin = <<>> /\ cout = <<>>
    /\ kin = [text |-> <<>>, size |-> 0, overlap |-> 0]
    /\ kout = [done |-> FALSE, ok |-> TRUE, chunks |-> <<>>]

\* no concurrent caller
CallersIdle == callers = <<>>

\* no chat turn
NoTurn == [pc |-> "none", retrieval |-> "none"]
TurnIdle == turn = NoTurn

StoreIdle ==
    /\ system = <<>>
    /\ indices = <<>>
    /\ last = NoCall
    /\ written = [nm \in Names |-> {}]
    /\ resolved = [nm \in Names |-> {}]

Init == StoreIdle /\ PureIdle /\ CallersIdle /\ TurnIdle

\* the state after add_documents(name, pages) gave r
AddDocumentsGave(name, arg, r) ==
    /\ system' = r.system
    /\ indices' = r.indices
    /\ written' = IF r.ok
                  THEN [written EXCEPT
                           ![name] = @ \cup {r.ids[j] : j \in 1..Len(r.ids)}]
                  ELSE written
    /\ resolved' = [resolved EXCEPT ![name] = @ \cup {r.handle}]
    /\ last' = [NoCall EXCEPT
                   !.op = "add", !.name = name, !.pages = arg,
                   !.ok = r.ok, !.error = r.error, !.handle = r.handle,
                   !.created = r.created, !.passed = r.passed,
                   !.ids = r.ids, !.texts = r.texts,
                   !.metadatas = r.metadatas,
                   !.count = Cardinality(r.indices[r.handle])]
    /\ UNCHANGED <<cin, cout, kin, kout, callers, turn>>

AddDocuments ==
    \E name \in Names, arg \in PageArgs :
        AddDocumentsGave(name, arg,
            add_documents(system, indices, name,
                          [j \in 1..Len(arg) |-> PageInputs[arg[j]]]))

RetrieveDocuments ==
    \E name \in Names, query \in Queries, top_k \in 0..MaxTopK :
        \E r \in retrieve_documents(system, indices, name, query, top_k) :
            /\ system' = r.system
            /\ indices' = r.indices
            /\ resolved' = [resolved EXCEPT ![name] = @ \cup {r.handle}]
            /\ last' = [NoCall EXCEPT
                           !.op = "retrieve", !.name = name, !.query = query,
                           !.top_k = top_k, !.ok = r.ok, !.error = r.error,
                           !.handle = r.handle, !.created = r.created,
                           !.results = r.results,
                           !.searched = EntryIds(r.indices[r.handle]),
                           !.count = Cardinality(r.indices[r.handle])]
            /\ UNCHANGED <<written, cin, cout, kin, kout, callers, turn>>

Next == AddDocuments \/ RetrieveDocuments

Spec == Init /\ [][Next]_vars

-----------------------------------------------------------------------------
(* clean_text applied to a string, and again to its own output             *)

CleanAlphabet == {"a", "1", SP, TAB, LF, CR, "-"}
CleanInputs == SeqsUpTo(CleanAlphabet, MaxCleanLen)

InitClean ==
    /\ StoreIdle /\ CallersIdle /\ TurnIdle
    /\ cin \in CleanInputs
    /\ cout = <<>>
    /\ kin = [text |-> <<>>, size |-> 0, overlap |-> 0]
    /\ kout = [done |-> FALSE, ok |-> TRUE, chunks |-> <<>>]

CleanFirst ==
    /\ Len(cout) = 0
    /\ cout' = <<clean_text(cin)>>
    /\ UNCHANGED <<system, indices, last, written, resolved, cin, kin, kout,
                   callers, turn>>

CleanAgain ==
    /\ Len(cout) = 1
    /\ cout' = Append(cout, clean_text(cout[1]))
    /\ UNCHANGED <<system, indices, last, written, resolved, cin, kin, kout,
                   callers, turn>>

NextClean == CleanFirst \/ CleanAgain

SpecClean == InitClean /\ [][NextClean]_vars

-----------------------------------------------------------------------------
(* chunk_text_recursive applied to a text with a chunk size and overlap,   *)
(* the configurations the splitter rejects included                        *)

ChunkAlphabet == {"a", SP, LF}
ChunkTexts == SeqsUpTo(ChunkAlphabet, MaxChunkLen)

InitChunk ==
    /\ StoreIdle /\ CallersIdle /\ TurnIdle
    /\ cin = <<>> /\ cout = <<>>
    /\ \E text \in ChunkTexts, size \in 0..MaxChunkSize :
          \E overlap \in 0..(size + 1) :
              kin = [text |-> text, size |-> size, overlap |-> overlap]
    /\ kout = [done |-> FALSE, ok |-> TRUE, chunks |-> <<>>]

ChunkCall ==
    /\ ~kout.done
    /\ kout' = [done |-> TRUE,
                ok |-> chunk_text_recursive(kin.text, kin.size, kin.overlap).ok,
                chunks |-> chunk_text_recursive(kin.text, kin.size, kin.overlap).chunks]
    /\ UNCHANGED <<system, indices, last, written, resolved, cin, cout, kin,
                   callers, turn>>

NextChunk == ChunkCall

SpecChunk == InitChunk /\ [][NextChunk]_vars

-----------------------------------------------------------------------------
(* Concurrent callers.  Each caller runs add_documents or                  *)
(* retrieve_documents statement by statement; the statements of different  *)
(* callers interleave in every order.  A call into Chroma is one step.     *)

MaxCallers == 2      \* concurrent callers

\* the page sequences the concurrent writers add: page 1 of a.pdf, the same
\* page of a changed a.pdf (the same chunk id), and the long page of b.pdf
CallerPages == {<<1>>, <<3>>, <<4>>}

NoBatch == [ok |-> TRUE, error |-> "", docs |-> <<>>]

\* a caller about to run its first statement
CallerStart(op, name, arg, top_k) ==
    [op |-> op, name |-> name, pages |-> arg, top_k |-> top_k,
     pc |-> "client", handle |-> 0, raced |-> FALSE, pre |-> NoBatch,
     ok |-> TRUE, error |-> "", ids |-> <<>>, results |-> {}, searched |-> {}]

CallerInputs ==
    {CallerStart("add", name, arg, 0) : name \in Names, arg \in CallerPages}
    \cup {CallerStart("retrieve", name, <<>>, MaxTopK) : name \in Names}

InitCallers ==
    /\ StoreIdle /\ PureIdle /\ TurnIdle
    /\ callers \in [1..MaxCallers -> CallerInputs]

\* access_chroma_collection, client = chromadb.EphemeralClient(): a client
\* of the system of the process
CallerClient(i) ==
    /\ callers[i].pc = "client"
    /\ callers' = [callers EXCEPT ![i].pc = "get"]
    /\ UNCHANGED <<system, indices, last, written, resolved, cin, cout, kin, kout, turn>>

\* the state after get_or_create_collection gave acc to the caller i
CallerGot(i, acc) ==
    /\ system' = acc.system
    /\ indices' = acc.indices
    /\ resolved' = [resolved EXCEPT ![callers[i].name] = @ \cup {acc.handle}]
    /\ callers' = [callers EXCEPT
                      ![i].handle = acc.handle,
                      ![i].raced = \E j \in DOMAIN callers :
                                       /\ j # i
                                       /\ callers[j].name = callers[i].name
                                       /\ callers[j].pc = "get",
                      ![i].pc = IF callers[i].op = "add" THEN "preprocess"
                                ELSE "query"]
    /\ UNCHANGED <<last, written, cin, cout, kin, kout, turn>>

\* access_chroma_collection, client.get_or_create_collection(name)
CallerGetOrCreate(i) ==
    /\ callers[i].pc = "get"
    /\ CallerGot(i, access_chroma_collection(system, indices, callers[i].name))

\* the state after preprocess_text gave pre to the caller i: an exception
\* ends the call
CallerPreprocessed(i, pre) ==
    /\ callers' = [callers EXCEPT
                      ![i].pre = pre,
                      ![i].ok = pre.ok,
                      ![i].error = pre.error,
                      ![i].pc = IF pre.ok THEN "add" ELSE "done"]
    /\ UNCHANGED <<system, indices, last, written, resolved, cin, cout, kin, kout, turn>>

\* add_documents, chunk_documents = preprocess_text(documents)
CallerPreprocess(i) ==
    /\ callers[i].pc = "preprocess"
    /\ CallerPreprocessed(i,
           preprocess_text([j \in 1..Len(callers[i].pages) |->
                               PageInputs[callers[i].pages[j]]],
                           DefaultChunkSize, DefaultChunkOverlap))

\* the state after the rest of add_documents gave r to the caller i
CallerAdded(i, r) ==
    /\ indices' = r.indices
    /\ written' = IF r.ok
                  THEN [written EXCEPT
                           ![callers[i].name] =
                               @ \cup {r.ids[j] : j \in 1..Len(r.ids)}]
                  ELSE written
    /\ callers' = [callers EXCEPT
                      ![i].ok = r.ok, ![i].error = r.error, ![i].ids = r.ids,
                      ![i].pc = "done"]
    /\ UNCHANGED <<system, last, resolved, cin, cout, kin, kout, turn>>

\* add_documents, from the ids to collection.add, on the collection the
\* caller holds
CallerAdd(i) ==
    /\ callers[i].pc = "add"
    /\ CallerAdded(i, add_batch([system |-> system, indices |-> indices,
                                 handle |-> callers[i].handle, created |-> FALSE],
                                callers[i].pre))

\* retrieve_documents, collection.query on the collection the caller holds
CallerQuery(i) ==
    /\ callers[i].pc = "query"
    /\ \E out \in collection_query(indices[callers[i].handle], "cats",
                                   callers[i].top_k) :
           callers' = [callers EXCEPT
                          ![i].ok = out.ok, ![i].error = out.error,
                          ![i].results = out.results,
                          ![i].searched = EntryIds(indices[callers[i].handle]),
                          ![i].pc = "done"]
    /\ UNCHANGED <<system, indices, last, written, resolved, cin, cout, kin, kout, turn>>

NextCallers ==
    \/ \E i \in DOMAIN callers : CallerClient(i)
    \/ \E i \in DOMAIN callers : CallerGetOrCreate(i)
    \/ \E i \in DOMAIN callers : CallerPreprocess(i)
    \/ \E i \in DOMAIN callers : CallerAdd(i)
    \/ \E i \in DOMAIN callers : CallerQuery(i)

SpecCallers == InitCallers /\ [][NextCallers]_vars

-----------------------------------------------------------------------------
(* chat_with_assistant_rag: one turn of the chat, statement by statement.  *)
(* A message is a record of role and content; a content is a string.       *)

SYSTEM_MESSAGE == "You are a helpful AI assistant"

ChatTopK == 5

ContextHeader ==
    "\n\n[CONTEXT - Please use these relevant excerpts from my uploaded documents to help answer the question:]\n\n"

\* the str of a text, which the model holds as a sequence of characters
RECURSIVE Str(_)
Str(text) == IF text = <<>> THEN "" ELSE Head(text) \o Str(Tail(text))

\* "\n\n".join(context_parts)
RECURSIVE JoinParts(_)
JoinParts(parts) ==
    IF parts = <<>> THEN ""
    ELSE IF Len(parts) = 1 THEN parts[1]
    ELSE parts[1] \o "\n\n" \o JoinParts(Tail(parts))

\* the context built from results['documents'][0]
ContextOf(docs) ==
    JoinParts([j \in 1..Len(docs) |->
                  "Document excerpt " \o ToString(j) \o ":\n" \o Str(docs[j])])

\* the messages list before retrieval: the system message, then the
\* messages of the history that are dicts with role and content, the
\* system ones skipped
HistoryMessages(history) ==
    <<[role |-> "system", content |-> SYSTEM_MESSAGE]>>
    \o SelectSeq(history,
                 LAMBDA msg : /\ {"role", "content"} \subseteq DOMAIN msg
                              /\ msg.role # "system")

\* A variant of the retrieval block without its try: an exception of
\* retrieve_documents would leave the generator and end the turn
after_retrieval_unguarded(message, raised, docs) ==
    IF raised
    THEN [enhanced_message |-> message, has_relevant_docs |-> FALSE, aborted |-> TRUE]
    ELSE IF docs # <<>>
    THEN [enhanced_message |-> message \o ContextHeader \o ContextOf(docs),
          has_relevant_docs |-> TRUE, aborted |-> FALSE]
    ELSE [enhanced_message |-> message, has_relevant_docs |-> FALSE, aborted |-> FALSE]

\* the retrieval block of chat_with_assistant_rag, given what
\* retrieve_documents did: raised, or returned the documents docs
after_retrieval(message, raised, docs) ==
    IF raised
    THEN [enhanced_message |-> message, has_relevant_docs |-> FALSE, aborted |-> FALSE]
    ELSE IF docs # <<>>
    THEN [enhanced_message |-> message \o ContextHeader \o ContextOf(docs),
          has_relevant_docs |-> TRUE, aborted |-> FALSE]
    ELSE [enhanced_message |-> message, has_relevant_docs |-> FALSE, aborted |-> FALSE]

\* the orders in which the query can rank the texts of the entries found
Rankings(entries, ids) ==
    LET found == {e \in entries : e.id \in ids}
    IN  {[j \in 1..Len(q) |-> q[j].text] :
            q \in {r \in SeqsUpTo(found, Cardinality(found)) :
                      /\ Len(r) = Cardinality(found)
                      /\ \A e \in found : \E j \in 1..Len(r) : r[j] = e}}

\* the streams the language model may answer with: the delta contents of
\* the chunks, "" standing for None
Streams == {<<>>, <<"Hel", "lo">>, <<"Hel", "", "lo">>}

\* the partial responses chat_with_assistant_rag yields for a stream
RECURSIVE Partials(_, _)
Partials(stream, sofar) ==
    IF stream = <<>> THEN <<>>
    ELSE IF Head(stream) = "" THEN Partials(Tail(stream), sofar)
    ELSE <<sofar \o Head(stream)>> \o Partials(Tail(stream), sofar \o Head(stream))

ChatMessages == {"hi", "what is a cat?"}

ChatHistories ==
    { <<>>,
      <<[role |-> "user", content |-> "hello"],
        [role |-> "assistant", content |-> "Hello!"]>>,
      <<[role |-> "system", content |-> "old"],
        [role |-> "user"],
        [role |-> "user", content |-> "hello"]>> }

\* the stores a turn starts from: nothing uploaded, or page 1 of a.pdf
\* uploaded to one of the collections
ChatStores ==
    {[system |-> <<>>, indices |-> <<>>]}
    \cup {[system |-> add_documents(<<>>, <<>>, nm, <<PageInputs[1]>>).system,
           indices |-> add_documents(<<>>, <<>>, nm, <<PageInputs[1]>>).indices] :
             nm \in Names}

InitChat ==
    /\ \E st \in ChatStores : system = st.system /\ indices = st.indices
    /\ last = NoCall
    /\ written = [nm \in Names |-> {}]
    /\ resolved = [nm \in Names |-> {}]
    /\ PureIdle /\ CallersIdle
    /\ \E message \in ChatMessages, history \in ChatHistories, name \in Names :
           turn = [pc |-> "start", message |-> message, history |-> history,
                   collection_name |-> name, messages |-> <<>>,
                   retrieval |-> "none", enhanced_message |-> "",
                   has_relevant_docs |-> FALSE, llm_calls |-> 0, sent |-> <<>>,
                   yielded |-> <<>>]

\* lines 39-51: the messages list is built
ChatBuild ==
    /\ turn.pc = "start"
    /\ turn' = [turn EXCEPT !.messages = HistoryMessages(turn.history),
                            !.pc = "retrieve"]
    /\ UNCHANGED <<system, indices, last, written, resolved, cin, cout, kin, kout,
                   callers>>

\* the turn after the retrieval block gave got
ChatRetrieved(retrieval, got) ==
    turn' = [turn EXCEPT !.retrieval = retrieval,
                         !.enhanced_message = got.enhanced_message,
                         !.has_relevant_docs = got.has_relevant_docs,
                         !.pc = IF got.aborted THEN "aborted" ELSE "append"]

\* lines 54-75, retrieve_documents returns
ChatRetrieve ==
    /\ turn.pc = "retrieve"
    /\ \E r \in retrieve_documents(system, indices, turn.collection_name,
                                   turn.message, ChatTopK) :
           /\ system' = r.system
           /\ indices' = r.indices
           /\ IF r.ok
              THEN \E docs \in Rankings(r.indices[r.handle], r.results) :
                       ChatRetrieved(IF docs = <<>> THEN "empty" ELSE "found",
                                     after_retrieval(turn.message, FALSE, docs))
              ELSE ChatRetrieved("raised", after_retrieval(turn.message, TRUE, <<>>))
    /\ UNCHANGED <<last, written, resolved, cin, cout, kin, kout, callers>>

\* lines 54-75, retrieve_documents raises (the embedding model cannot be
\* loaded, Chroma fails): nothing is known of the store but that it is as
\* it was
ChatRetrieveRaises ==
    /\ turn.pc = "retrieve"
    /\ ChatRetrieved("raised", after_retrieval(turn.message, TRUE, <<>>))
    /\ UNCHANGED <<system, indices, last, written, resolved, cin, cout, kin, kout,
                   callers>>

\* line 78: the user message is appended
ChatAppend ==
    /\ turn.pc = "append"
    /\ turn' = [turn EXCEPT
                   !.messages = Append(@, [role |-> "user",
                                           content |-> turn.enhanced_message]),
                   !.pc = "call"]
    /\ UNCHANGED <<system, indices, last, written, resolved, cin, cout, kin, kout,
                   callers>>

\* lines 82-100: the language model is called and streams its answer
ChatCall ==
    /\ turn.pc = "call"
    /\ \E stream \in Streams :
           turn' = [turn EXCEPT !.llm_calls = @ + 1,
                                !.sent = turn.messages,
                                !.yielded = Partials(stream, ""),
                                !.pc = "done"]
    /\ UNCHANGED <<system, indices, last, written, resolved, cin, cout, kin, kout,
                   callers>>

\* lines 82-104: the call of the language model raises
ChatCallRaises ==
    /\ turn.pc = "call"
    /\ turn' = [turn EXCEPT !.llm_calls = @ + 1,
                            !.sent = turn.messages,
                            !.yielded = <<"I apologize, but I'm experiencing a technical issue: error">>,
                            !.pc = "done"]
    /\ UNCHANGED <<system, indices, last, written, resolved, cin, cout, kin, kout,
                   callers>>

NextChat ==
    \/ ChatBuild
    \/ ChatRetrieve
    \/ ChatRetrieveRaises
    \/ ChatAppend
    \/ ChatCall
    \/ ChatCallRaises

SpecChat == InitChat /\ [][NextChat]_vars

-----------------------------------------------------------------------------
(* The properties.                                                         *)

\* the entries of every collection
AllEntries == UNION {indices[h] : h \in 1..Len(indices)}

\* the page inputs whose text clean_text leaves blank
BlankInputs ==
    {j \in 1..Len(PageInputs) :
        StripChars(clean_text(PageInputs[j].text), WhiteSpace) = <<>>}

\* the page inputs that hold every key of the page-wise record, none of them
\* a list
WellFormedInputs ==
    {j \in 1..Len(PageInputs) :
        /\ PageKeysRead \subseteq DOMAIN PageInputs[j]
        /\ \A k \in (DOMAIN PageInputs[j]) \ {"text"} :
               PageInputs[j][k].t \in {"str", "int", "bool", "none"}}

\* C1 (as the specification states it): an entry written again under an
\* existing chunk id replaces the stored entry, so that after every
\* add_documents call that returned without error the collection holds, under
\* each id of the call, the text the call wrote.
C1_UpsertReplaces ==
    (last.op = "add" /\ last.ok) =>
        \A j \in 1..Len(last.ids) :
            \E e \in indices[last.handle] :
                e.id = last.ids[j] /\ e.text = last.texts[j]

C3_TopKRespected ==
    (last.op = "retrieve" /\ last.top_k >= 1) =>
        /\ last.ok
        /\ Cardinality(last.results) = Min(last.top_k, last.count)
        /\ last.results \subseteq last.searched

\* a retrieve_documents call whose top_k exceeds the size of a collection
\* that is not empty
C3_Witness ==
    /\ last.op = "retrieve" /\ last.ok
    /\ last.count >= 1 /\ last.top_k > last.count
    /\ last.results = last.searched

\* C4 (as the specification states it): add_documents on pages some or all
\* of which clean to blank text returns without raising, stores entries only
\* for the pages that are not blank, and no entry of empty text is stored.
C4_EmptyPagesSkipped ==
    /\ \A e \in AllEntries : e.text # <<>>
    /\ (/\ last.op = "add"
        /\ \A j \in 1..Len(last.pages) : last.pages[j] \in WellFormedInputs
        /\ \E j \in 1..Len(last.pages) : last.pages[j] \in BlankInputs)
       => /\ last.ok
          /\ \A j \in 1..Len(last.metadatas) :
                 \E p \in 1..Len(last.pages) :
                     /\ last.pages[p] \notin BlankInputs
                     /\ PageInputs[last.pages[p]].filename = last.metadatas[j].filename
                     /\ PageInputs[last.pages[p]].page = last.metadatas[j].page

\* C5 (as the specification states it): a call with chunk_size <= 0 or with
\* chunk_overlap >= chunk_size ends in an error, for every text, the empty
\* one included.
C5_ConfigurationFailsFast ==
    (kout.done /\ (kin.size <= 0 \/ kin.overlap >= kin.size)) => ~kout.ok

\* C6 (as the specification states it): the metadata of every entry that
\* add_documents passes to the collection has no 'text' key and only str,
\* number and bool values: no None, no list.
C6_MetadataScalar ==
    (last.op = "add" /\ last.passed) =>
        \A j \in 1..Len(last.metadatas) :
            /\ "text" \notin DOMAIN last.metadatas[j]
            /\ \A k \in DOMAIN last.metadatas[j] :
                   last.metadatas[j][k].t \in {"str", "int", "bool"}

\* '{filename}_page{page}_chunk{chunk_number}' of a metadata
ExpectedId(m) ==
    PyStr(m.filename) \o "_page" \o PyStr(m.page) \o "_chunk" \o PyStr(m.chunk_number)

\* the chunk numbers of a batch run 1..total_chunks_for_page, page after page
NumberedInRuns(ms) ==
    \A j \in 1..Len(ms) :
        LET n == ms[j].chunk_number.n
            total == ms[j].total_chunks_for_page.n
        IN  /\ n \in 1..total
            /\ j = 1 => n = 1
            /\ j = Len(ms) => n = total
            /\ j < Len(ms) =>
                   IF n < total
                   THEN /\ ms[j + 1].chunk_number.n = n + 1
                        /\ ms[j + 1].total_chunks_for_page.n = total
                        /\ ms[j + 1].filename = ms[j].filename
                        /\ ms[j + 1].page = ms[j].page
                   ELSE ms[j + 1].chunk_number.n = 1

\* C7: the id of every stored entry is
\* '{filename}_page{page}_chunk{chunk_number}' with a 1-based chunk_number;
\* no two entries of a collection share an id; and in every batch
\* add_documents builds, the chunk numbers of a page are exactly
\* 1..total_chunks_for_page in order, without repeats.
C7_DeterministicIds ==
    /\ \A e \in AllEntries :
           /\ e.id = ExpectedId(e.metadata)
           /\ e.metadata.chunk_number.n \in 1..e.metadata.total_chunks_for_page.n
    /\ \A h \in 1..Len(indices) :
           \A e1, e2 \in indices[h] : e1.id = e2.id => e1 = e2
    /\ (last.op = "add" /\ last.passed) =>
           /\ NumberedInRuns(last.metadatas)
           /\ \A j \in 1..Len(last.ids) : last.ids[j] = ExpectedId(last.metadatas[j])

\* an add_documents call that stored a page of more than one chunk
C7_Witness ==
    /\ last.op = "add" /\ last.ok
    /\ \E j \in 1..Len(last.ids) :
           /\ last.metadatas[j].chunk_number.n >= 2
           /\ \E e \in indices[last.handle] :
                  e.id = last.ids[j] /\ e.metadata = last.metadatas[j]

\* C8 (as the specification states it): clean_text(clean_text(x)) equals
\* clean_text(x), for every string x.
C8_CleanIdempotent ==
    Len(cout) = 2 => cout[2] = cout[1]

\* C9: for a text that is not empty and chunk_size > chunk_overlap >= 0,
\* every chunk chunk_text_recursive returns has length <= chunk_size (the
\* last separator splits between any two characters, so no unit exceeds it).
C9_ChunkLengthBound ==
    (kout.done /\ kout.ok /\ kin.text # <<>> /\ kin.size > kin.overlap) =>
        \A j \in 1..Len(kout.chunks) :
            /\ 1 <= SpanLen(kout.chunks[j])
            /\ SpanLen(kout.chunks[j]) <= kin.size

\* a text of several chunks, one of them as long as chunk_size allows and
\* made of more than one piece
C9_Witness ==
    /\ kout.done /\ kout.ok /\ kin.size > kin.overlap /\ kin.size >= 2
    /\ Len(kout.chunks) >= 2
    /\ \E j \in 1..Len(kout.chunks) : SpanLen(kout.chunks[j]) = kin.size

\* the number of characters of the text that the j-th chunk and the next
\* one both hold
Shared(chunks, j) == Max(0, chunks[j].hi - chunks[j + 1].lo + 1)

\* the tail of length k of the chunk p is the head of length k of the chunk q
TailIsHead(s, p, q, k) ==
    /\ k <= SpanLen(p) /\ k <= SpanLen(q)
    /\ SubSeq(s, p.hi - k + 1, p.hi) = SubSeq(s, q.lo, q.lo + k - 1)

\* C10 (as the specification states it): when chunk_text_recursive returns
\* more than one chunk, the tail of every chunk equals the head of the next
\* over a span of length > 0 and <= chunk_overlap.
C10_OverlapPositive ==
    (kout.done /\ kout.ok /\ kin.size > kin.overlap) =>
        \A j \in 1..(Len(kout.chunks) - 1) :
            \E k \in 1..kin.overlap :
                TailIsHead(kin.text, kout.chunks[j], kout.chunks[j + 1], k)

\* C10, amended: no chunk starts or ends before the one before it, and the span
\* that a chunk re-includes from the end of the one before it has length
\* <= chunk_overlap; it may be empty.
C10_OverlapBound ==
    (kout.done /\ kout.ok /\ kin.size > kin.overlap) =>
        \A j \in 1..(Len(kout.chunks) - 1) :
            /\ kout.chunks[j].lo <= kout.chunks[j + 1].lo
            /\ kout.chunks[j].hi <= kout.chunks[j + 1].hi
            /\ Shared(kout.chunks, j) <= kin.overlap
            /\ TailIsHead(kin.text, kout.chunks[j], kout.chunks[j + 1],
                          Shared(kout.chunks, j))

\* consecutive chunks that share as much as chunk_overlap allows, after
\* consecutive chunks that share nothing
C10_Witness ==
    /\ kout.done /\ kout.ok /\ kin.size > kin.overlap /\ kin.overlap > 0
    /\ \E j \in 1..(Len(kout.chunks) - 1) : Shared(kout.chunks, j) = kin.overlap
    /\ \E j \in 1..(Len(kout.chunks) - 1) : Shared(kout.chunks, j) = 0

\* the chunks from the j-th on, concatenated in order, each without the
\* span it shares with the chunk before it
RECURSIVE Rebuild(_, _, _)
Rebuild(s, chunks, j) ==
    IF j > Len(chunks) THEN <<>>
    ELSE (IF j = 1 THEN SpanText(s, chunks[1])
          ELSE SubSeq(s, chunks[j].lo + Shared(chunks, j - 1), chunks[j].hi))
         \o Rebuild(s, chunks, j + 1)

\* C11 (as the specification states it): for a normalized page text (a text
\* clean_text leaves as it is), the chunks chunk_text_recursive returns,
\* concatenated in order with the overlapping spans removed, are the text:
\* no character, separator whitespace included, is lost or reordered.
C11_ChunksRebuildText ==
    (/\ kout.done /\ kout.ok /\ kin.size > kin.overlap
     /\ kin.text # <<>> /\ clean_text(kin.text) = kin.text)
    => Rebuild(kin.text, kout.chunks, 1) = kin.text

C13_GracefulDegradation ==
    (turn.retrieval \in {"empty", "raised"}) =>
        /\ turn.pc \in {"append", "call", "done"}
        /\ ~turn.has_relevant_docs
        /\ turn.enhanced_message = turn.message
        /\ turn.llm_calls = (IF turn.pc = "done" THEN 1 ELSE 0)
        /\ turn.pc = "done" =>
               /\ turn.sent # <<>>
               /\ turn.sent[Len(turn.sent)]
                      = [role |-> "user", content |-> turn.message]
               /\ \A j \in 1..(Len(turn.sent) - 1) : turn.sent[j].role # "system" \/ j = 1

\* a turn whose retrieval raised and whose language-model call was made,
\* after a history
C13_Witness ==
    /\ turn.pc = "done" /\ turn.retrieval = "raised"
    /\ turn.llm_calls = 1
    /\ Len(turn.sent) >= 3
    /\ turn.yielded # <<>>

\* C14 (as the specification states it): whatever line endings the input
\* used, the output of clean_text holds no carriage return and no run of
\* three or more newlines.
C14_NewlinesNormalized ==
    \A k \in 1..Len(cout) :
        /\ \A j \in 1..Len(cout[k]) : cout[k][j] # CR
        /\ \A j \in 1..(Len(cout[k]) - 2) :
               ~(cout[k][j] = LF /\ cout[k][j + 1] = LF /\ cout[k][j + 2] = LF)

\* the page inputs none of whose values is a list
ScalarInputs ==
    {j \in 1..Len(PageInputs) :
        \A k \in (DOMAIN PageInputs[j]) \ {"text"} : PageInputs[j][k].t # "list"}

\* C15 (as the specification states it): add_documents on the records
\* parse_pdf returns, the page-wise ones and the fallback one alike, reads
\* only keys the records hold and indexes the chunks of every page without
\* raising.  Stated for records of scalar values, text that is not blank
\* and distinct pages, which fail for no other reason.
C15_EveryRecordIngestible ==
    (/\ last.op = "add"
     /\ last.pages # <<>>
     /\ \A j \in 1..Len(last.pages) : last.pages[j] \in ScalarInputs \ BlankInputs
     /\ \A j, k \in 1..Len(last.pages) :
            (/\ PageInputs[last.pages[j]].filename = PageInputs[last.pages[k]].filename
             /\ PageInputs[last.pages[j]].page = PageInputs[last.pages[k]].page)
            => j = k)
    => /\ last.ok
       /\ \A j \in 1..Len(last.pages) :
              \E e \in indices[last.handle] :
                  /\ e.metadata.filename = PageInputs[last.pages[j]].filename
                  /\ e.metadata.page = PageInputs[last.pages[j]].page

=============================================================================
